---- MODULE Spec2Model ----
(***************************************************************************)
(* Door motion state machine of bevy_infrastructure (src/src/door/mod.rs). *)
(*                                                                         *)
(* Numbers.  Every f32 the door code touches (swing values, the sliding    *)
(* offset translation.x, the literals 0.01 and 0.02) is an integer         *)
(* multiple of 2^-30 in the range the model uses, so an f32 is modelled    *)
(* by its integer count of 2^-30 units and f32 addition by exact integer   *)
(* addition followed by round-to-nearest-even to a 24 bit significand      *)
(* (F32Round).  The rotation of a swinging leaf is a rotation about Y      *)
(* only; it is modelled by its angle in units of 2^-29 rad, kept in        *)
(* (-pi, pi], and to_euler(ZYX).1 by the arcsine fold of that angle.       *)
(*                                                                         *)
(* Scheduling.  BevyDoorPlugin::build adds the three systems to Update     *)
(* with no ordering between them; they conflict on Transform, DoorState    *)
(* and DoorGoal, so they run one at a time, in an order the host's         *)
(* executor picks.  The entity commands queued by spawn_door are applied   *)
(* when the schedule ends.                                                 *)
(***************************************************************************)
EXTENDS Integers, Sequences, FiniteSets, TLC

VARIABLES
    doors,          \* entities carrying DoorProperties, in spawn order
    joints,         \* entities carrying DoorJoint, DoorState and DoorGoal
    door_requests,  \* DoorEvents sent and not yet read by update_door_goal
    commands,       \* entity commands queued by spawn_door in this tick
    ran,            \* the systems that have run in the current tick, in order
    same_tick_open, \* doors that were new in the tick of the last router pass
                    \* and were named by an open request drained in that pass
    dropped         \* names of the requests drained in this tick that matched
                    \* no leaf's door

vars ==
    <<doors, joints, door_requests, commands, ran, same_tick_open, dropped>>

----------------------------------------------------------------------------
(* Bounds of the model *)

\* number of integrator passes for which a swinging leaf that keeps turning is
\* followed
MaxTurn == 200

\* longest batch of unread DoorEvents
MaxQueue == 2

----------------------------------------------------------------------------
(* f32 arithmetic in units of 2^-30 *)

Pow2(k) == 2^k

\* 1.0f32
One == Pow2(30)

Abs(x) == IF x < 0 THEN -x ELSE x

\* f32::signum: 1.0 for positive values and +0.0, -1.0 for negative values
Signum(x) == IF x < 0 THEN -1 ELSE 1

\* nearest f32 to the non-negative real n * 2^-30, ties to even
F32Round(n) ==
    IF n < Pow2(24) THEN n
    ELSE LET k == CHOOSE e \in 1..7 :
                      /\ n \div Pow2(e) >= Pow2(23)
                      /\ n \div Pow2(e) < Pow2(24)
             q == n \div Pow2(k)
             r == n % Pow2(k)
             half == Pow2(k - 1)
             up == r > half \/ (r = half /\ q % 2 = 1)
         IN  (IF up THEN q + 1 ELSE q) * Pow2(k)

\* a + b in f32
F32Add(a, b) ==
    LET r == a + b
    IN  IF r < 0 THEN -F32Round(-r) ELSE F32Round(r)

\* the literal 0.01 as f32 (0x3C23D70A), in units of 2^-30
Step == 10737418

\* the literal 0.02 as f32 (0x3CA3D70A), in units of 2^-30
CloseTolerance == 21474836

----------------------------------------------------------------------------
(* Rotation about Y, in units of 2^-29 rad *)

\* 0.01 rad as f32, in units of 2^-29
StepAngle == 5368709

\* 0.02 rad as f32, in units of 2^-29
CloseToleranceAngle == 10737418

\* pi and pi/2 in units of 2^-29
Pi == 1686629713
HalfPi == 843314857

\* a swing value (units of 2^-30) as an angle
ToAngle(swing) == Signum(swing) * (Abs(swing) \div 2)

\* Quat::from_rotation_y(swing)
FromRotationY(swing) == ToAngle(swing)

\* transform.rotate(Quat::from_rotation_y(d)) on a rotation about Y
Rotate(rot, d) ==
    LET r == rot + d
    IN  IF r > Pi THEN (r - Pi) - Pi
        ELSE IF r <= -Pi THEN (r + Pi) + Pi
        ELSE r

\* transform.rotation.to_euler(EulerRot::ZYX).1 : asin(sin(angle))
EulerY(rot) ==
    IF rot > HalfPi THEN Pi - rot
    ELSE IF rot < -HalfPi THEN (-Pi) - rot
    ELSE rot

----------------------------------------------------------------------------
(* Data model *)

DoorTypes == {"SingleSliding", "DoubleSliding", "SingleSwinging", "DoubleSwinging"}

DoorStates == {"Open", "Closed", "Opening", "Closing"}

DoorGoals == {"Open", "Closed"}

Names == {"door_1", "door_2"}

Systems == {"spawn_door", "update_door_goal", "update_door_movement"}

\* whether the system has run in the current tick
Ran(system) == \E i \in DOMAIN ran : ran[i] = system

\* DoorProperties::new
DoorProperties(name, swing_value, door_type) ==
    [name |-> name, swing_value |-> swing_value, door_type |-> door_type]

\* DoorEvent::open / DoorEvent::close
DoorEvent(name, goal) == [name |-> name, goal |-> goal]

\* variant of GoalEqState: a goal is compared with the state of the motion
\* towards it
GoalEqStateTransit(goal, state) ==
    CASE goal = "Open" -> state = "Opening"
      [] goal = "Closed" -> state = "Closing"

\* variant of GoalEqState: every goal counts as reached
GoalEqStateAlways(goal, state) ==
    goal \in DoorGoals /\ state \in DoorStates

\* impl PartialEq<DoorState> for DoorGoal
GoalEqState(goal, state) ==
    CASE goal = "Open" -> state = "Open"
      [] goal = "Closed" -> state = "Closed"

\* a door entity: its DoorProperties, whether spawn_door's Added filter still
\* matches it, the door of the host it descends from, and whether the current
\* tick is the first one whose systems can see it
DoorEntity(props, origin) ==
    [name |-> props.name, swing_value |-> props.swing_value,
     door_type |-> props.door_type, added |-> TRUE, origin |-> origin,
     born |-> TRUE]

\* a joint entity: Parent, DoorState::default(), DoorGoal::default() and the
\* default Transform; elapsed counts the integrator passes that have acted on
\* the joint since the router last changed its goal; seen holds the goals of the
\* requests addressed to the joint that the router has drained since the
\* integrator last ran (the joint's state is the one they were drained in)
JointEntity(parent) ==
    [parent |-> parent, state |-> "Closed", goal |-> "Closed", x |-> 0,
     rot |-> 0, elapsed |-> 0, seen |-> {}]

\* the doors a host's setup spawns: the example's door_1, the double sliding
\* door_2, and doors with negative and non-multiple-of-0.01 swing values
Worlds ==
    { << DoorProperties("door_1", One, "SingleSliding") >>,
      << DoorProperties("door_2", One, "DoubleSliding") >>,
      << DoorProperties("door_1", -(3 * Pow2(23)), "SingleSliding"),
         DoorProperties("door_2", -(3 * Pow2(24)), "DoubleSliding") >>,
      << DoorProperties("door_1", 3 * Pow2(24), "DoubleSwinging"),
         DoorProperties("door_2", -Pow2(25), "SingleSwinging") >> }

----------------------------------------------------------------------------
(* Topology resolver: spawn_door *)

\* an entity command: spawn a DoorBundle, or spawn a joint under a door
SpawnBundle(props, origin) ==
    [kind |-> "door", props |-> props, origin |-> origin, parent |-> 0]

SpawnJoint(parent, props, origin) ==
    [kind |-> "joint", props |-> props, origin |-> origin, parent |-> parent]

\* variant of Added: the query has no Added filter and matches every door
AddedAlways(door) == TRUE

\* the query filter Added<DoorProperties>
Added(door) == door.added

\* variant of SpawnCommands: the second half of a double door gets the swing
\* value of the first half
SpawnCommandsUnmirrored(i, door) ==
    CASE door.door_type = "DoubleSliding" ->
            << SpawnBundle(DoorProperties(door.name,
                                          -(Abs(door.swing_value) \div 2),
                                          "SingleSliding"), door.origin),
               SpawnBundle(DoorProperties(door.name,
                                          -(Abs(door.swing_value) \div 2),
                                          "SingleSliding"), door.origin) >>
      [] door.door_type \in {"SingleSwinging", "SingleSliding"} ->
            << SpawnJoint(i, DoorProperties(door.name, door.swing_value,
                                            door.door_type), door.origin) >>
      [] door.door_type = "DoubleSwinging" ->
            << SpawnBundle(DoorProperties(door.name, door.swing_value,
                                          "SingleSwinging"), door.origin),
               SpawnBundle(DoorProperties(door.name, door.swing_value,
                                          "SingleSwinging"), door.origin) >>

\* variant of SpawnCommands: the joint is attached to the door itself whatever
\* its type
SpawnCommandsJointOnDoor(i, door) ==
    << SpawnJoint(i, DoorProperties(door.name, door.swing_value,
                                    door.door_type), door.origin) >>

\* the match on properties.door_type, for the door entity i
SpawnCommands(i, door) ==
    CASE door.door_type = "DoubleSliding" ->
            << SpawnBundle(DoorProperties(door.name,
                                          -(Abs(door.swing_value) \div 2),
                                          "SingleSliding"), door.origin),
               SpawnBundle(DoorProperties(door.name,
                                          Abs(door.swing_value) \div 2,
                                          "SingleSliding"), door.origin) >>
      [] door.door_type \in {"SingleSwinging", "SingleSliding"} ->
            << SpawnJoint(i, DoorProperties(door.name, door.swing_value,
                                            door.door_type), door.origin) >>
      [] door.door_type = "DoubleSwinging" ->
            << SpawnBundle(DoorProperties(door.name, door.swing_value,
                                          "SingleSwinging"), door.origin),
               SpawnBundle(DoorProperties(door.name, -door.swing_value,
                                          "SingleSwinging"), door.origin) >>

RECURSIVE QueueSpawns(_, _)
QueueSpawns(i, ds) ==
    IF i > Len(ds) THEN <<>>
    ELSE (IF Added(ds[i]) THEN SpawnCommands(i, ds[i]) ELSE <<>>)
         \o QueueSpawns(i + 1, ds)

spawn_door ==
    /\ ~Ran("spawn_door")
    /\ commands' = commands \o QueueSpawns(1, doors)
    /\ doors' = [i \in DOMAIN doors |-> [doors[i] EXCEPT !.added = FALSE]]
    /\ ran' = Append(ran, "spawn_door")
    /\ UNCHANGED <<joints, door_requests, same_tick_open, dropped>>

----------------------------------------------------------------------------
(* Command router: update_door_goal *)

\* variant of RequestGoal: an open request is accepted whatever the state
RequestGoalUngated(state, goal, request) ==
    CASE request = "Open" -> "Open"
      [] request = "Closed" -> IF state = "Open" THEN "Closed" ELSE goal

\* variant of RequestGoal: a close request is also accepted while Opening
RequestGoalReversible(state, goal, request) ==
    CASE request = "Open" -> IF state = "Closed" THEN "Open" ELSE goal
      [] request = "Closed" ->
            IF state \in {"Open", "Opening"} THEN "Closed" ELSE goal

\* the match on door_request.goal for one joint and one request
RequestGoal(state, goal, request) ==
    CASE request = "Open" -> IF state = "Closed" THEN "Open" ELSE goal
      [] request = "Closed" -> IF state = "Open" THEN "Closed" ELSE goal

\* variant of NameMatches: the name of the request is not compared
NameIgnored(name, request_name) == TRUE

\* properties.name != door_request.name => continue
NameMatches(name, request_name) == name = request_name

\* the goal of a joint of the door called name after the requests, in order
RECURSIVE GoalAfter(_, _, _, _)
GoalAfter(name, state, goal, reqs) ==
    IF reqs = <<>> THEN goal
    ELSE LET r == Head(reqs)
         IN  GoalAfter(name, state,
                       IF ~NameMatches(name, r.name) THEN goal
                       ELSE RequestGoal(state, goal, r.goal),
                       Tail(reqs))

\* the requests of a batch addressed to the door called name
Addressed(name, reqs) == SelectSeq(reqs, LAMBDA r : r.name = name)

update_door_goal ==
    /\ ~Ran("update_door_goal")
    /\ joints' =
          [j \in DOMAIN joints |->
              LET name == doors[joints[j].parent].name
                  new == GoalAfter(name, joints[j].state, joints[j].goal,
                                   door_requests)
                  mine == Addressed(name, door_requests)
              IN  [joints[j] EXCEPT
                      !.goal = new,
                      !.elapsed = IF new # joints[j].goal THEN 0 ELSE @,
                      !.seen = @ \cup {mine[k].goal : k \in DOMAIN mine}]]
    /\ door_requests' = <<>>
    /\ same_tick_open' =
          {d \in DOMAIN doors :
              /\ doors[d].origin = d
              /\ doors[d].born
              /\ \E k \in DOMAIN door_requests :
                    /\ door_requests[k].name = doors[d].name
                    /\ door_requests[k].goal = "Open"}
    /\ dropped' =
          {door_requests[k].name : k \in DOMAIN door_requests} \
              {doors[joints[j].parent].name : j \in DOMAIN joints}
    /\ ran' = Append(ran, "update_door_goal")
    /\ UNCHANGED <<doors, commands>>

----------------------------------------------------------------------------
(* Motion integrator: update_door_movement *)

\* variant of ArrivedClosed: the tolerance is the 0.01 step
ArrivedClosedWithinStep(x) == Abs(x) <= Step

\* transform.translation.x.abs() <= 0.02
ArrivedClosed(x) == Abs(x) <= CloseTolerance

\* transform.translation.x.abs() >= properties.swing_value.abs()
ArrivedOpen(x, swing) == Abs(x) >= Abs(swing)

\* transform.translation.x += -0.01 * properties.swing_value.signum()
StepClosing(x, swing) == F32Add(x, (-Step) * Signum(swing))

\* variant of StepOpening: the increment is the 0.02 tolerance
StepOpeningByTolerance(x, swing) == F32Add(x, CloseTolerance * Signum(swing))

\* transform.translation.x += 0.01 * properties.swing_value.signum()
StepOpening(x, swing) == F32Add(x, Step * Signum(swing))

\* variant of SnapClosed: the offset is not reset
SnapClosedKeepsOffset(j) == [j EXCEPT !.state = "Closed"]

\* the position and state written on arrival at the closed position
SnapClosed(j) == [j EXCEPT !.x = 0, !.state = "Closed"]

\* variant of SnapOpen: the state is not written
SnapOpenKeepsState(j, swing) == [j EXCEPT !.x = swing]

\* the position and state written on arrival at the open position
SnapOpen(j, swing) == [j EXCEPT !.x = swing, !.state = "Open"]

\* DoorType::SingleSliding => match goal
MoveSliding(j, swing) ==
    CASE j.goal = "Closed" ->
            IF ArrivedClosed(j.x) THEN SnapClosed(j)
            ELSE [j EXCEPT !.state = "Closing", !.x = StepClosing(j.x, swing)]
      [] j.goal = "Open" ->
            IF ArrivedOpen(j.x, swing) THEN SnapOpen(j, swing)
            ELSE [j EXCEPT !.state = "Opening", !.x = StepOpening(j.x, swing)]

\* DoorType::SingleSwinging => match goal
MoveSwinging(j, swing) ==
    CASE j.goal = "Closed" ->
            IF Abs(EulerY(j.rot)) <= CloseToleranceAngle
            THEN [j EXCEPT !.rot = 0, !.state = "Closed"]
            ELSE [j EXCEPT !.state = "Closing",
                           !.rot = Rotate(j.rot, (-StepAngle) * Signum(swing))]
      [] j.goal = "Open" ->
            IF 2 * Abs(EulerY(j.rot)) >= Abs(swing)
            THEN [j EXCEPT !.rot = FromRotationY(swing), !.state = "Open"]
            ELSE [j EXCEPT !.state = "Opening",
                           !.rot = Rotate(j.rot, StepAngle * Signum(swing))]

\* the body of the loop over the joints
MoveJoint(j, door) ==
    IF GoalEqState(j.goal, j.state) THEN j
    ELSE LET moved ==
                CASE door.door_type = "SingleSliding" ->
                        MoveSliding(j, door.swing_value)
                  [] door.door_type = "SingleSwinging" ->
                        MoveSwinging(j, door.swing_value)
                  [] OTHER -> j
         IN  [moved EXCEPT !.elapsed = @ + 1]

update_door_movement ==
    /\ ~Ran("update_door_movement")
    /\ joints' = [j \in DOMAIN joints |->
                     [MoveJoint(joints[j], doors[joints[j].parent])
                         EXCEPT !.seen = {}]]
    /\ ran' = Append(ran, "update_door_movement")
    /\ UNCHANGED <<doors, door_requests, commands, same_tick_open, dropped>>

----------------------------------------------------------------------------
(* The host: the end of the Update schedule, and the sender of DoorEvents *)

\* the deferred entity commands of the tick are applied once the three systems
\* have run, and the next tick begins
EndTick ==
    /\ \A system \in Systems : Ran(system)
    /\ LET ds == SelectSeq(commands, LAMBDA c : c.kind = "door")
           js == SelectSeq(commands, LAMBDA c : c.kind = "joint")
       IN  /\ doors' = [i \in DOMAIN doors |-> [doors[i] EXCEPT !.born = FALSE]]
                       \o [k \in 1..Len(ds) |-> DoorEntity(ds[k].props, ds[k].origin)]
           /\ joints' = joints \o [k \in 1..Len(js) |-> JointEntity(js[k].parent)]
    /\ commands' = <<>>
    /\ ran' = <<>>
    /\ dropped' = {}
    /\ UNCHANGED <<door_requests, same_tick_open>>

\* ui_element: door_request.send(DoorEvent::open(..) / DoorEvent::close(..))
SendDoorEvent ==
    /\ Len(door_requests) < MaxQueue
    /\ \E name \in Names, goal \in DoorGoals :
          door_requests' = Append(door_requests, DoorEvent(name, goal))
    /\ UNCHANGED <<doors, joints, commands, ran, same_tick_open, dropped>>

\* the world after the host's setup: its doors are spawned, no system has run
Init ==
    /\ \E world \in Worlds :
          doors = [i \in 1..Len(world) |-> DoorEntity(world[i], i)]
    /\ joints = <<>>
    /\ door_requests = <<>>
    /\ commands = <<>>
    /\ ran = <<>>
    /\ same_tick_open = {}
    /\ dropped = {}

Next ==
    \/ spawn_door
    \/ update_door_goal
    \/ update_door_movement
    \/ EndTick
    \/ SendDoorEvent

Spec == Init /\ [][Next]_vars

----------------------------------------------------------------------------
(* Vocabulary of the properties *)

Owner(j) == doors[joints[j].parent]

SlidingJoints == {j \in DOMAIN joints : Owner(j).door_type = "SingleSliding"}

\* the step in which update_door_goal runs
RouterStep == ran' = Append(ran, "update_door_goal")

\* the step in which update_door_movement runs
IntegratorStep == ran' = Append(ran, "update_door_movement")

\* the requests the goal-gating rule names: open to a leaf that is Open or
\* Opening, close to a leaf that is Closed or Closing
Gated(state, request) ==
    \/ request = "Open" /\ state \in {"Open", "Opening"}
    \/ request = "Closed" /\ state \in {"Closed", "Closing"}

\* ceil(|swing| / 0.01) for a swing value in units of 2^-30, computed in two
\* halves of 15 bits so that no intermediate value exceeds 32 bits
CeilSteps(swing) ==
    LET a == Abs(swing)
        hi == a \div Pow2(15)
        lo == a % Pow2(15)
        t == 100 * hi + (100 * lo) \div Pow2(15)
        r == (100 * lo) % Pow2(15)
    IN  t \div Pow2(15) + (IF t % Pow2(15) # 0 \/ r # 0 THEN 1 ELSE 0)

----------------------------------------------------------------------------
(* C1 *)

\* C1: goal-gating.  A leaf's goal changes only in a router pass and only to
\* the goal of a drained request that names its door and is not gated (an open
\* while the leaf is Open or Opening, a close while it is Closed or Closing,
\* never changes the goal); the pass drains every request, so a dropped
\* request is not applied on a later tick.
C1_GoalGating ==
    [][ /\ \A j \in DOMAIN joints :
              joints'[j].goal # joints[j].goal =>
                  /\ RouterStep
                  /\ \E k \in DOMAIN door_requests :
                        /\ door_requests[k].name = Owner(j).name
                        /\ door_requests[k].goal = joints'[j].goal
                        /\ ~Gated(joints[j].state, door_requests[k].goal)
        /\ RouterStep => door_requests' = <<>> ]_vars

\* an open request was drained for a leaf that is Opening: its goal is as it
\* was and no request is left to apply
C1_Witness ==
    /\ \E j \in DOMAIN joints :
          /\ joints[j].state = "Opening"
          /\ "Open" \in joints[j].seen
          /\ joints[j].goal = "Open"
    /\ door_requests = <<>>

----------------------------------------------------------------------------
(* C2 *)

\* C2: command acceptance.  In one router pass every leaf that is Closed and
\* whose door is named by a drained open request gets goal Open, every leaf
\* that is Open and whose door is named by a drained close request gets goal
\* Closed (both leaves of a double door alike), and a leaf whose door no
\* drained request names keeps its goal.
C2_Acceptance ==
    [][ RouterStep =>
          \A j \in DOMAIN joints :
              LET mine == Addressed(Owner(j).name, door_requests)
                  has(g) == \E k \in DOMAIN mine : mine[k].goal = g
              IN  /\ (joints[j].state = "Closed" /\ has("Open"))
                         => joints'[j].goal = "Open"
                  /\ (joints[j].state = "Open" /\ has("Closed"))
                         => joints'[j].goal = "Closed"
                  /\ mine = <<>> => joints'[j].goal = joints[j].goal ]_vars

\* both leaves of a double door have just had an open request accepted while
\* the leaf of a door with another name keeps goal Closed
C2_Witness ==
    \E i, j, k \in DOMAIN joints :
        /\ i # j
        /\ Owner(i).origin = Owner(j).origin
        /\ Owner(k).name # Owner(i).name
        /\ \A l \in {i, j} :
              /\ joints[l].state = "Closed"
              /\ joints[l].goal = "Open"
              /\ "Open" \in joints[l].seen
        /\ joints[k].goal = "Closed"
        /\ joints[k].seen = {}

----------------------------------------------------------------------------
(* C3 *)

\* C3 as stated: a sliding leaf whose goal was set to Open reports Open at
\* exactly swing_value once ceil(|swing_value| / 0.01) integrator ticks have
\* acted on it (100 ticks for door_1)
C3_OpenWithinCeil ==
    \A j \in SlidingJoints :
        (joints[j].goal = "Open"
            /\ joints[j].elapsed >= CeilSteps(Owner(j).swing_value))
        => (joints[j].state = "Open" /\ joints[j].x = Owner(j).swing_value)

\* C3 amended: a sliding leaf whose goal was set to Open reports Open at
\* exactly swing_value once ceil(|swing_value| / 0.01) + 2 integrator ticks
\* have acted on it (102 ticks for door_1): the steps that carry the offset to
\* or past |swing_value|, and one more tick to detect the arrival
C3_OpenWithinCeilPlus2 ==
    \A j \in SlidingJoints :
        (joints[j].goal = "Open"
            /\ joints[j].elapsed >= CeilSteps(Owner(j).swing_value) + 2)
        => (joints[j].state = "Open" /\ joints[j].x = Owner(j).swing_value)

\* door_1 of the example is Open at offset 1.0 after exactly 102 ticks
C3_Witness ==
    \E j \in SlidingJoints :
        /\ Owner(j).swing_value = One
        /\ joints[j].goal = "Open"
        /\ joints[j].state = "Open"
        /\ joints[j].x = One
        /\ joints[j].elapsed = CeilSteps(One) + 2

----------------------------------------------------------------------------
(* C4 *)

\* C4 as stated: the absolute offset of a sliding leaf never exceeds
\* |swing_value|
C4_NoOvershoot ==
    \A j \in SlidingJoints : Abs(joints[j].x) <= Abs(Owner(j).swing_value)

\* C4 amended: the absolute offset of a sliding leaf exceeds |swing_value|
\* only while the leaf is Opening, and then by less than one 0.01 step (it is at
\* most the f32 sum |swing_value| + 0.01)
C4_OvershootBelowOneStep ==
    \A j \in SlidingJoints :
        /\ Abs(joints[j].x) <= F32Add(Abs(Owner(j).swing_value), Step)
        /\ joints[j].state # "Opening"
              => Abs(joints[j].x) <= Abs(Owner(j).swing_value)

\* an Opening leaf whose offset is beyond its swing value
C4_Witness ==
    \E j \in SlidingJoints :
        /\ joints[j].state = "Opening"
        /\ Abs(joints[j].x) > Abs(Owner(j).swing_value)

----------------------------------------------------------------------------
(* C5 *)

\* C5: exact terminal positions.  A sliding leaf that reports Closed is at
\* offset exactly 0 and one that reports Open is at exactly swing_value.
C5_ExactTerminal ==
    \A j \in SlidingJoints :
        /\ joints[j].state = "Closed" => joints[j].x = 0
        /\ joints[j].state = "Open" => joints[j].x = Owner(j).swing_value

\* a leaf back at Closed, offset 0, after an open and a close
C5_Witness ==
    \E j \in SlidingJoints :
        /\ joints[j].state = "Closed"
        /\ joints[j].goal = "Closed"
        /\ joints[j].elapsed > 0
        /\ joints[j].x = 0

----------------------------------------------------------------------------
(* C6 *)

\* C6 as stated: when a close request for a sliding leaf has been drained
\* while the leaf is Opening, the next integrator tick decreases the leaf's
\* absolute offset
C6_ReversesNextTick ==
    [][ IntegratorStep =>
          \A j \in SlidingJoints :
              ("Closed" \in joints[j].seen /\ joints[j].state = "Opening")
              => Abs(joints'[j].x) < Abs(joints[j].x) ]_vars

\* C6 amended: a close request drained while a sliding leaf is Opening is
\* dropped; the goal stays Open and on the next integrator tick the leaf keeps
\* opening: its absolute offset grows by a step, or the leaf is set to
\* swing_value and reports Open
C6_KeepsOpening ==
    [][ IntegratorStep =>
          \A j \in SlidingJoints :
              ("Closed" \in joints[j].seen /\ joints[j].state = "Opening")
              => /\ joints'[j].goal = "Open"
                 /\ joints'[j].state \in {"Opening", "Open"}
                 /\ joints'[j].state = "Opening"
                       => Abs(joints'[j].x) > Abs(joints[j].x)
                 /\ joints'[j].state = "Open"
                       => joints'[j].x = Owner(j).swing_value ]_vars

\* a close request has been drained for a leaf that is under way to Open
C6_Witness ==
    \E j \in SlidingJoints :
        /\ "Closed" \in joints[j].seen
        /\ joints[j].state = "Opening"
        /\ joints[j].goal = "Open"
        /\ joints[j].x # 0
        /\ Ran("update_door_goal")
        /\ ~Ran("update_door_movement")

----------------------------------------------------------------------------
(* C7 *)

----------------------------------------------------------------------------
(* C8 *)

\* the doors the host spawned
Roots == {d \in DOMAIN doors : doors[d].origin = d}

\* the leaves that belong to the host's door d
Leaves(d) == {j \in DOMAIN joints : Owner(j).origin = d}

\* the resolver has nothing left to do for the host's door d
Resolved(d) ==
    /\ \A i \in DOMAIN doors : doors[i].origin = d => ~doors[i].added
    /\ \A k \in DOMAIN commands : commands[k].origin # d

ExpectedLeaves(door_type) ==
    IF door_type \in {"SingleSliding", "SingleSwinging"} THEN 1 ELSE 2

\* C8: leaf count and idempotent resolution.  Once a door is resolved it has
\* exactly one leaf if it is SingleSliding or SingleSwinging and exactly two
\* if it is DoubleSliding or DoubleSwinging, and from then on it stays resolved
\* and its set of leaves never changes.
C8_LeafCount ==
    /\ [](\A d \in Roots :
             Resolved(d) =>
                 Cardinality(Leaves(d)) = ExpectedLeaves(doors[d].door_type))
    /\ [][ \A d \in Roots :
              Resolved(d) => (Resolved(d)' /\ Leaves(d)' = Leaves(d)) ]_vars

\* a resolved double door has two leaves, long after its resolution: both
\* have travelled to Open
C8_Witness ==
    \E d \in Roots :
        /\ doors[d].door_type \in {"DoubleSliding", "DoubleSwinging"}
        /\ Resolved(d)
        /\ Cardinality(Leaves(d)) = 2
        /\ \A j \in Leaves(d) : joints[j].state = "Open"

----------------------------------------------------------------------------
(* C9 *)

\* the host's door d followed by the doors spawned for it, in spawn order
Family(d) == SelectSeq(doors, LAMBDA e : e.origin = d)

\* C9: mirrored double leaves.  The two doors spawned for a DoubleSliding door
\* of swing value s are SingleSliding with swing values -|s|/2 and +|s|/2,
\* those of a DoubleSwinging door are SingleSwinging with s and -s; each has
\* one leaf once resolved, and a sliding leaf that reports Open is at the
\* swing value of its half (-0.5 and +0.5 for s = 1.0).
C9_Mirrored ==
    \A d \in Roots :
        LET s == doors[d].swing_value
            f == Family(d)
        IN  /\ doors[d].door_type = "DoubleSliding" =>
                  /\ Len(f) \in {1, 3}
                  /\ Resolved(d) => Len(f) = 3
                  /\ Len(f) = 3 =>
                        /\ 2 * f[2].swing_value = -Abs(s)
                        /\ 2 * f[3].swing_value = Abs(s)
                        /\ \A k \in {2, 3} :
                              /\ f[k].door_type = "SingleSliding"
                              /\ f[k].name = doors[d].name
            /\ doors[d].door_type = "DoubleSwinging" =>
                  /\ Len(f) \in {1, 3}
                  /\ Resolved(d) => Len(f) = 3
                  /\ Len(f) = 3 =>
                        /\ f[2].swing_value = s
                        /\ f[3].swing_value = -s
                        /\ \A k \in {2, 3} :
                              /\ f[k].door_type = "SingleSwinging"
                              /\ f[k].name = doors[d].name
            /\ \A j \in Leaves(d) :
                  /\ Owner(j).door_type \in {"SingleSliding", "SingleSwinging"}
                  /\ (Owner(j).door_type = "SingleSliding"
                        /\ joints[j].state = "Open")
                     => joints[j].x = Owner(j).swing_value

\* the leaves of the DoubleSliding door of swing value 1.0 are Open at -0.5
\* and at +0.5
C9_Witness ==
    \E d \in Roots :
        /\ doors[d].door_type = "DoubleSliding"
        /\ doors[d].swing_value = One
        /\ \E i, j \in Leaves(d) :
              /\ joints[i].state = "Open" /\ joints[i].x = -Pow2(29)
              /\ joints[j].state = "Open" /\ joints[j].x = Pow2(29)

----------------------------------------------------------------------------
(* C10 *)

\* the order of the passes that section 5 of the design names
DesignOrder == <<"spawn_door", "update_door_goal", "update_door_movement">>

\* C10: same-tick creation and command.  When a tick ends in which the router
\* drained an open request naming a door that was created for that tick, the
\* door has its leaf (or leaves) and each of them has goal Open; stated for the
\* ticks that ran the passes in the order resolver, router, integrator.
C10_SameTickOpen ==
    [][ (ran = DesignOrder /\ ran' = <<>>) =>
          \A d \in same_tick_open :
              /\ Leaves(d)' # {}
              /\ \A j \in Leaves(d)' : joints'[j].goal = "Open" ]_vars

----------------------------------------------------------------------------
(* C11 *)

\* C11: pass ordering.  Within every tick the passes run in the order
\* resolver, router, integrator: the passes that have run so far in the tick
\* are always a prefix of that order.
C11_PassOrder ==
    \A i \in DOMAIN ran : ran[i] = DesignOrder[i]

----------------------------------------------------------------------------
(* C12 *)

\* the worlds in which progress is checked: a single and a double sliding
\* door whose swing values are no multiple of the step, one of them negative
LiveWorlds ==
    { << DoorProperties("door_1", -(3 * Pow2(23)), "SingleSliding") >>,
      << DoorProperties("door_2", 3 * Pow2(24), "DoubleSliding") >> }

LiveInit ==
    /\ \E world \in LiveWorlds :
          doors = [i \in 1..Len(world) |-> DoorEntity(world[i], i)]
    /\ joints = <<>>
    /\ door_requests = <<>>
    /\ commands = <<>>
    /\ ran = <<>>
    /\ same_tick_open = {}
    /\ dropped = {}

\* Bevy runs the Update schedule every frame and every system of it once per
\* run: no pass and no end of tick is postponed forever.  The host is not
\* obliged to send requests.
FairSpec ==
    /\ LiveInit
    /\ [][Next]_vars
    /\ WF_vars(spawn_door)
    /\ WF_vars(update_door_goal)
    /\ WF_vars(update_door_movement)
    /\ WF_vars(EndTick)

\* sliding leaf j has the goal and has not reached its terminal state
Pending(j, goal) ==
    IF j \in SlidingJoints
    THEN joints[j].goal = goal /\ joints[j].state # goal
    ELSE FALSE

\* leaf j reports the terminal state of the goal
Reports(j, goal) ==
    IF j \in DOMAIN joints THEN joints[j].state = goal ELSE FALSE

----------------------------------------------------------------------------
(* C13 *)

\* C13: integrator idle path.  A pass of the integrator leaves every leaf whose
\* state already satisfies its goal (Open with goal Open, Closed with goal
\* Closed) as it is: state, goal, offset and rotation are unchanged, and the
\* leaf is not acted on at all.
C13_IdlePath ==
    [][ IntegratorStep =>
          \A j \in DOMAIN joints :
              (\/ joints[j].state = "Open" /\ joints[j].goal = "Open"
               \/ joints[j].state = "Closed" /\ joints[j].goal = "Closed") =>
                  /\ joints'[j].state = joints[j].state
                  /\ joints'[j].goal = joints[j].goal
                  /\ joints'[j].x = joints[j].x
                  /\ joints'[j].rot = joints[j].rot
                  /\ joints'[j].elapsed = joints[j].elapsed ]_vars

\* the integrator has run first in a tick while one leaf rests open at its
\* swing value and another rests closed again after a round trip
C13_Witness ==
    /\ ran = <<"update_door_movement">>
    /\ \E i, j \in SlidingJoints :
          /\ joints[i].state = "Open" /\ joints[i].goal = "Open"
          /\ joints[i].x = Owner(i).swing_value
          /\ joints[j].state = "Closed" /\ joints[j].goal = "Closed"
          /\ joints[j].x = 0
          /\ joints[j].elapsed >= 1

----------------------------------------------------------------------------
(* C14 *)

\* C14: router frame.  A pass of the router changes no leaf's state, offset or
\* rotation and creates, removes or re-parents no leaf; it changes no door.
\* The only attribute of a leaf it can change is the goal, and when no request
\* of the batch names the door of a leaf no goal changes either.
C14_RouterFrame ==
    [][ RouterStep =>
          /\ doors' = doors
          /\ DOMAIN joints' = DOMAIN joints
          /\ \A j \in DOMAIN joints :
                /\ joints'[j].state = joints[j].state
                /\ joints'[j].x = joints[j].x
                /\ joints'[j].rot = joints[j].rot
                /\ joints'[j].parent = joints[j].parent
          /\ (\A k \in DOMAIN door_requests :
                 \A j \in DOMAIN joints :
                     door_requests[k].name # Owner(j).name) =>
                \A j \in DOMAIN joints : joints'[j].goal = joints[j].goal ]_vars

\* the router has drained a request for a door that does not exist while the
\* only leaf was in motion, and the leaf's goal is the one it had
C14_Witness ==
    /\ Ran("update_door_goal")
    /\ dropped # {}
    /\ \E j \in DOMAIN joints :
          /\ joints[j].state = "Opening"
          /\ joints[j].x # 0
          /\ joints[j].goal = "Open"
          /\ joints[j].seen = {}

----------------------------------------------------------------------------
(* C15 *)

\* C15: owner lookup never fails.  Every leaf has a parent that is a door
\* entity, so that parent.get() and the lookup of its DoorProperties succeed in
\* the router and in the integrator, and the type of that door is SingleSliding
\* or SingleSwinging, so that the integrator's branch for the other types is
\* not taken for a leaf whose goal differs from its state.
C15_OwnerResolved ==
    \A j \in DOMAIN joints :
        /\ joints[j].parent \in DOMAIN doors
        /\ doors[joints[j].parent].door_type
              \in {"SingleSliding", "SingleSwinging"}

\* both systems have run in a tick in which a leaf of a double swinging door
\* is in motion: its owner is a SingleSwinging child of the double door
C15_Witness ==
    /\ Ran("update_door_goal")
    /\ Ran("update_door_movement")
    /\ \E j \in DOMAIN joints :
          /\ joints[j].state = "Opening"
          /\ joints[j].rot # 0
          /\ Owner(j).door_type = "SingleSwinging"
          /\ doors[Owner(j).origin].door_type = "DoubleSwinging"

----------------------------------------------------------------------------
(* C16 *)

\* a host with one swinging door that opens to 1.75 rad, beyond a right angle
SwingWorld == << DoorProperties("door_1", 7 * Pow2(28), "SingleSwinging") >>

SwingInit ==
    /\ doors = [i \in 1..Len(SwingWorld) |-> DoorEntity(SwingWorld[i], i)]
    /\ joints = <<>>
    /\ door_requests = <<>>
    /\ commands = <<>>
    /\ ran = <<>>
    /\ same_tick_open = {}
    /\ dropped = {}

\* the systems of the plugin; a leaf is followed for MaxTurn passes of the
\* integrator that act on it
SwingNext ==
    \/ spawn_door
    \/ update_door_goal
    \/ /\ update_door_movement
       /\ \A j \in DOMAIN joints' : joints'[j].elapsed <= MaxTurn
    \/ EndTick
    \/ SendDoorEvent

SwingSpec == SwingInit /\ [][SwingNext]_vars

\* C16: swinging open reaches Open.  When the integrator acts on a swinging
\* leaf with goal Open whose absolute rotation has reached |swing_value|, it
\* finds the arrival: it sets the rotation to exactly swing_value and the state
\* to Open, whatever the magnitude of swing_value.
C16_SwingArrival ==
    [][ IntegratorStep =>
          \A j \in DOMAIN joints :
              (/\ Owner(j).door_type = "SingleSwinging"
               /\ joints[j].goal = "Open"
               /\ joints[j].state # "Open"
               /\ 2 * Abs(joints[j].rot) >= Abs(Owner(j).swing_value)) =>
                  /\ joints'[j].state = "Open"
                  /\ joints'[j].rot = ToAngle(Owner(j).swing_value) ]_vars

----------------------------------------------------------------------------
(* C17 *)

\* C17: transitional states agree with the goal.  In every reachable state a
\* leaf that is Opening has goal Open and a leaf that is Closing has goal
\* Closed; and no step changes the goal of a leaf whose goal differs from its
\* state, whatever requests arrive and in whatever order the systems run.
C17_TransitAgrees ==
    /\ [](\A j \in DOMAIN joints :
             /\ joints[j].state = "Opening" => joints[j].goal = "Open"
             /\ joints[j].state = "Closing" => joints[j].goal = "Closed")
    /\ [][ \A j \in DOMAIN joints :
               (\/ joints[j].goal = "Open" /\ joints[j].state # "Open"
                \/ joints[j].goal = "Closed" /\ joints[j].state # "Closed") =>
                   joints'[j].goal = joints[j].goal ]_vars

\* the router has drained an open request for a leaf that is on its way back,
\* and the leaf is still Closing with goal Closed
C17_Witness ==
    \E j \in DOMAIN joints :
        /\ joints[j].state = "Closing"
        /\ joints[j].goal = "Closed"
        /\ "Open" \in joints[j].seen
        /\ joints[j].x # 0

----------------------------------------------------------------------------
(* C18 *)

\* C18: the leaves of a double door move in lockstep.  Whenever a tick is
\* complete, any two leaves of a DoubleSliding door have the same state and
\* the same goal, and the offsets of its two leaves are exact negatives of
\* each other.
C18_Lockstep ==
    ran = <<>> =>
        \A d \in Roots :
            doors[d].door_type = "DoubleSliding" =>
                \A i, j \in Leaves(d) :
                    /\ joints[i].state = joints[j].state
                    /\ joints[i].goal = joints[j].goal
                    /\ i # j => joints[i].x = -joints[j].x

\* a tick is complete while the two leaves of a double door are on their way
\* back, at opposite offsets
C18_Witness ==
    /\ ran = <<>>
    /\ \E d \in Roots :
          /\ doors[d].door_type = "DoubleSliding"
          /\ \E i, j \in Leaves(d) :
                /\ i # j
                /\ joints[i].state = "Closing" /\ joints[j].state = "Closing"
                /\ joints[i].x > 0
                /\ joints[j].x = -joints[i].x

----------------------------------------------------------------------------
(* C19 *)

\* the orders in which a batch of n requests can be drained
Orders(n) ==
    {p \in [1..n -> 1..n] : \A a, b \in 1..n : p[a] = p[b] => a = b}

\* the batch in the order p
Permuted(reqs, p) == [k \in 1..Len(reqs) |-> reqs[p[k]]]

\* C19: the order of the commands within a tick does not matter.  In every
\* pass of the router the goal each leaf is left with is the goal it would
\* have been left with had the batch been drained in any other order; and the
\* same holds for the batch of the pass and every leaf state and goal.
C19_OrderIrrelevant ==
    [][ RouterStep =>
          \A p \in Orders(Len(door_requests)) :
              /\ \A j \in DOMAIN joints :
                    joints'[j].goal =
                        GoalAfter(Owner(j).name, joints[j].state,
                                  joints[j].goal, Permuted(door_requests, p))
              /\ \A name \in Names, state \in DoorStates, goal \in DoorGoals :
                    GoalAfter(name, state, goal, Permuted(door_requests, p))
                        = GoalAfter(name, state, goal, door_requests) ]_vars

\* the router has drained an open and a close request for the same leaf in
\* one pass; the leaf was Open, so that only the close request was accepted
C19_Witness ==
    /\ Ran("update_door_goal")
    /\ \E j \in DOMAIN joints :
          /\ joints[j].seen = {"Open", "Closed"}
          /\ joints[j].state = "Open"
          /\ joints[j].goal = "Closed"
          /\ joints[j].elapsed = 0

====
